---- MODULE Spec2Model ----
(***************************************************************************)
(* A model of the queuepool resource pool: the Pool, ResourceManager and   *)
(* ConnectionManager of src/postgres.py (the variant with repair hooks and *)
(* the background recycler), with the collaborator calls that may raise    *)
(* (connect, close/quit, rollback) as nondeterministic outcomes.           *)
(*                                                                         *)
(* These specifications explore it:                                         *)
(*   Spec      a pool constructed with maxIdleTime = maxOpenTime = None,   *)
(*             used by NumCallers threads and the recycler. No decision of *)
(*             such a pool reads the clock, so the clock is not advanced.  *)
(*   SpecTime  a pool with maxIdleTime or maxOpenTime (and maxUsageCount = *)
(*             None), used by one caller thread and the recycler while the *)
(*             clock runs to MaxTime.                                      *)
(*   SpecPolicy  a pool with any combination of thresholds None, zero or   *)
(*             positive, used by one caller thread and the recycler while  *)
(*             the clock runs to MaxTime.                                  *)
(*   SpecTimeFair  SpecTime with the sweep and the clock scheduled fairly  *)
(*             (liveness).                                                 *)
(*   SpecStart   the pool of Spec whose caller threads call startRecycler  *)
(*             themselves, concurrently.                                   *)
(*   SpecVariant  the pool and the Pool of src/queuepool/postgres.py given *)
(*             the same operations, resources and clock.                   *)
(***************************************************************************)
EXTENDS Integers, Sequences, FiniteSets, TLC

\* ---------------------------------------------------------------- bounds
\* Pool capacity = number of ResourceManager objects the caller populates.
Capacity == 2
\* Number of caller threads.
NumCallers == 2
\* The clock (datetime.now()) runs over 0..MaxTime.
MaxTime == 2
\* Cap on _usageCount when no threshold closes the resource.
MaxCount == 2

\* Python's None for a timestamp or a counter that was never set.
None == -1

R == 1..Capacity
Callers == 1..NumCallers

\* Threshold values the pool is constructed with (None: check not configured).
MaxUsageCounts == {None, 1, 2}
\* <<maxIdleTime, maxOpenTime>> of the pools with a time threshold.
TimeThresholds == {<<1, None>>, <<None, 1>>}

\* Threshold values of the pools of SpecPolicy: not configured, zero, positive.
PolicyTimes == {None, 0, 1}
PolicyCounts == {None, 0, 2}

VARIABLES
  store,            \* Pool._queue: the LifoQueue, top of the stack last
  res,              \* the ResourceManager objects: r -> its fields
  fresh,            \* resources constructed but not yet put into the pool
  lost,             \* r -> "no", or what dropped r: "open" (open() raised in
                    \* take()), "closed twice" (close() was called on a closed
                    \* resource) or "raise" (another call raised)
  pc,               \* caller -> "idle" | "waiting" | "using"
  held,             \* caller -> the resource take() returned, or None
  takeT,            \* caller -> the t take() read before queue.get(), or None
  excReturned,      \* resources whose latest return to the store ended a scope
                    \* that an error left, and that were not taken since
  rpc,              \* recycler thread: "none" | "sleeping" | "draining" | "pushing" | "dead"
  rs,               \* Pool.recycle's local list rs
  now,              \* datetime.now()
  closeOnException, \* Pool.closeOnException
  maxIdleTime,      \* Pool._maxIdleTime
  maxOpenTime,      \* Pool._maxOpenTime
  maxUsageCount,    \* Pool._maxUsageCount
  startPc,          \* caller -> the interval of the startRecycler() call it is
                    \* in, having found _recyclerThread None, or None
  started,          \* number of recycler threads started (Thread.start())
  recyclerInterval, \* Pool._recyclerInterval, None until startRecycler sets it
  vstore,           \* Pool._pool of a Pool of src/queuepool/postgres.py that
                    \* is given the same operations (SpecVariant)
  vres              \* the ResourceManager objects that pool manages

config == <<closeOnException, maxIdleTime, maxOpenTime, maxUsageCount>>
startVars == <<startPc, started, recyclerInterval>>
variantVars == <<vstore, vres>>
vars == <<store, res, fresh, lost, pc, held, takeT, excReturned, rpc, rs, now, config,
          startVars, variantVars>>

Range(q) == {q[i] : i \in 1..Len(q)}

\* ------------------------------------------------------- queue.LifoQueue
\* Faulty variant of QueueMaxsize: a queue one slot too small.
QueueTooSmall == Capacity - 1

\* LifoQueue(self.capacity): the maxsize of the store.
QueueMaxsize == Capacity

\* put() blocks while the queue is full.
CanPut(q) == Len(q) < QueueMaxsize

LifoPut(q, r) == Append(q, r)

\* Faulty variants of LifoGet: a FIFO queue.Queue; a get that does not wait and
\* makes up a resource when the queue is empty.
FifoGet(q) == IF Len(q) > 0 THEN {q[1]} ELSE {}
GetNoWait(q) == IF Len(q) > 0 THEN {q[Len(q)]} ELSE 1..Capacity

\* get(): the items a get can return now; none while the queue is empty
\* (a blocking get waits, get(block=False) raises queue.Empty).
LifoGet(q) == IF Len(q) > 0 THEN {q[Len(q)]} ELSE {}

\* Faulty variant of LifoRest: get() leaves the item in the queue.
LifoPeek(q) == q

\* The queue after get().
LifoRest(q) == SubSeq(q, 1, Len(q) - 1)

\* ------------------------------------------------------ ResourceManager
\* What the pool can see of a live psycopg2 connection: transaction status
\* IDLE, in a transaction (ACTIVE, INTRANS, INERROR), UNKNOWN, or closed.
HandleStates == {"idle", "intrans", "unknown", "closed"}

\* ResourceManager.__init__: closed, nothing set.
NewResource ==
  [isOpen |-> FALSE, lastOpened |-> None, lastUsed |-> None,
   usageCount |-> None, handle |-> "none", bound |-> FALSE]

Ok(r) == [ok |-> TRUE, err |-> "none", r |-> r]
Raise(e, r) == [ok |-> FALSE, err |-> e, r |-> r]

\* What `lost` records of an exception.
Cause(o) ==
  IF o.ok THEN "no"
  ELSE IF o.err \in {"open", "closed twice"} THEN o.err
  ELSE "raise"

\* ConnectionManager.open followed by ResourceManager.open, when connect succeeds.
Opened(r, t) ==
  [r EXCEPT !.handle = "idle", !.isOpen = TRUE, !.lastOpened = t,
            !.lastUsed = t, !.usageCount = 0]

\* open(): pg.connect may raise, and then nothing of the object has changed;
\* set_session may raise, and then self.resource is set and _isOpen is not.
OpenOutcomes(r, t) ==
  {Ok(Opened(r, t)), Raise("open", r), Raise("open", [r EXCEPT !.handle = "idle"])}

\* Faulty variant of Closed: a close() that keeps self.resource.
ClosedKeepsHandle(r) == [r EXCEPT !.handle = "closed", !.isOpen = FALSE]

\* ConnectionManager.close followed by ResourceManager.close, when nothing raises:
\* _lastOpened, _lastUsed and _usageCount keep their values.
Closed(r) == [r EXCEPT !.handle = "none", !.isOpen = FALSE]

\* close(): on a closed resource self.resource is None and self.resource.closed
\* raises; the handle's own close() (quit() for SMTP) is called unless the
\* handle is already closed and may raise, before self.resource and _isOpen
\* are touched.
CloseOutcomes(r) ==
  IF r.handle = "none" THEN {Raise("closed twice", r)}
  ELSE IF r.handle = "closed" THEN {Ok(Closed(r))}
  ELSE {Ok(Closed(r)), Raise("close", r)}

\* Faulty variant of RepairOutcomes: a repair that does not look at the handle.
RepairLooksAway(r) == {Ok(r)}

\* ConnectionManager.repair.
RepairOutcomes(r) ==
  IF ~r.isOpen THEN {Ok(r)}
  ELSE IF r.handle = "none" THEN {Raise("close", r)}
  ELSE IF r.handle = "closed" THEN CloseOutcomes(r)
  ELSE IF r.handle = "unknown" THEN CloseOutcomes(r)
  ELSE IF r.handle # "idle"
       THEN {Ok([r EXCEPT !.handle = "idle"]), Raise("rollback", r)}
  ELSE {Ok(r)}

\* ResourceManager.takeRepair / ConnectionManager.takeRepair: nothing.
TakeRepairOutcomes(r) == {Ok(r)}

\* Faulty variant of PutRepairOutcomes: a hook that reconnects.
PutRepairReconnects(r) == {Ok([r EXCEPT !.isOpen = TRUE, !.handle = "idle"])}

\* ConnectionManager.putRepair: repair(), then the base hook (nothing).
PutRepairOutcomes(r) == RepairOutcomes(r)

\* ----------------------------------------------------------------- Pool
IsMaxIdle(r, t) == maxIdleTime # None /\ t - r.lastUsed > maxIdleTime
IsMaxOpen(r, t) == maxOpenTime # None /\ t - r.lastOpened > maxOpenTime
\* Faulty variant of IsMaxUsage: one use too many.
IsMaxUsageLate(r) == maxUsageCount # None /\ r.usageCount > maxUsageCount
IsMaxUsage(r) == maxUsageCount # None /\ r.usageCount >= maxUsageCount

\* Faulty variant of ShouldRecycle: the thresholds without the isOpen test.
ShouldRecycleClosed(r, t) == IsMaxIdle(r, t) \/ IsMaxOpen(r, t) \/ IsMaxUsage(r)

\* Pool._recycle's decision for a resource at time t.
ShouldRecycle(r, t) ==
  r.isOpen /\ (IsMaxIdle(r, t) \/ IsMaxOpen(r, t) \/ IsMaxUsage(r))

\* Pool._recycle.
RecycleOutcomes(r, t) ==
  IF ShouldRecycle(r, t) THEN CloseOutcomes(r) ELSE {Ok(r)}

\* Sequencing of calls that may raise: f is applied to the results so far
\* that did not raise.
Then(outs, f(_)) ==
  {o \in outs : ~o.ok} \cup UNION {f(o.r) : o \in {x \in outs : x.ok}}

\* Faulty variant of TakeOpen: take() without the lazy open.
TakeOpenNever(r, t) == {Ok(r)}

\* Pool.take after queue.get() returned r: t0 is the t read on entry,
\* t the time now.
TakeOpen(r, t) == IF r.isOpen THEN {Ok(r)} ELSE OpenOutcomes(r, t)

TakeStamp(r, t0) ==
  {Ok([r EXCEPT !.usageCount = r.usageCount + 1, !.lastUsed = t0])}

TakeOutcomes(r, t0, t) ==
  LET bind == [r EXCEPT !.bound = TRUE]
      recycled == RecycleOutcomes(bind, t)
      repaired == Then(recycled, TakeRepairOutcomes)
      opened == Then(repaired, LAMBDA x : TakeOpen(x, t))
  IN  Then(opened, LAMBDA x : TakeStamp(x, t0))

\* Faulty variant of PutOutcomes: the policy is evaluated before lastUsed is set.
PutStampsLate(r, t) ==
  LET recycled == RecycleOutcomes([r EXCEPT !.bound = TRUE], t)
      repaired == Then(recycled, PutRepairOutcomes)
  IN  Then(repaired, LAMBDA x : {Ok([x EXCEPT !.lastUsed = t])})

\* ResourceManager.putRepair, the hook of the base class: nothing.
BasePutRepairOutcomes(r) == {Ok(r)}

\* Pool.put before queue.put(r), for a resource whose putRepair is the
\* given hook.
PutWith(r, t, putRepair(_)) ==
  LET stamped == [r EXCEPT !.bound = TRUE, !.lastUsed = t]
      recycled == RecycleOutcomes(stamped, t)
  IN  Then(recycled, putRepair)

\* Pool.put before queue.put(r), for a ConnectionManager.
PutOutcomes(r, t) == PutWith(r, t, PutRepairOutcomes)

\* Pool.put before queue.put(r), for a resource with the hooks of the base class.
BasePutOutcomes(r, t) == PutWith(r, t, BasePutRepairOutcomes)

\* Faulty variants of ShouldForceClose: closeOnException ignored, either way.
NeverForceClose(exc) == FALSE
AlwaysForceClose(exc) == exc

\* ResourceManager.__exit__: whether close() is called before put().
ShouldForceClose(exc) == closeOnException /\ exc

\* ResourceManager.__exit__ up to queue.put(r), with the put() of the pool
\* the resource is bound to; exc: an error is propagating out of the scope body.
ExitWith(r, exc, t, put(_, _)) ==
  LET closed == IF ShouldForceClose(exc)
                THEN CloseOutcomes(r)
                ELSE {Ok(r)}
  IN  Then(closed, LAMBDA x : put(x, t))

\* __exit__ of a ConnectionManager.
ExitOutcomes(r, exc, t) == ExitWith(r, exc, t, PutOutcomes)

\* __exit__ of a resource with the hooks of the base class.
BaseExitOutcomes(r, exc, t) == ExitWith(r, exc, t, BasePutOutcomes)

\* ----------------------------------------------------------------- Init
Constructed ==
  /\ store = <<>>
  /\ res = [r \in R |-> NewResource]
  /\ fresh = R
  /\ lost = [r \in R |-> "no"]
  /\ pc = [c \in Callers |-> "idle"]
  /\ held = [c \in Callers |-> None]
  /\ takeT = [c \in Callers |-> None]
  /\ excReturned = {}
  /\ rpc = "none"
  /\ rs = <<>>
  /\ now = 0
  /\ startPc = [c \in Callers |-> None]
  /\ started = 0
  /\ recyclerInterval = None
  /\ vstore = <<>>
  /\ vres = [r \in R |-> NewResource]

\* Pool(..., maxIdleTime=None, maxOpenTime=None, ...).
Init ==
  /\ Constructed
  /\ closeOnException \in BOOLEAN
  /\ maxIdleTime = None
  /\ maxOpenTime = None
  /\ maxUsageCount \in MaxUsageCounts

\* Pool(..., maxUsageCount=None, ...) with a time threshold.
InitTime ==
  /\ Constructed
  /\ closeOnException \in BOOLEAN
  /\ maxUsageCount = None
  /\ \E th \in TimeThresholds : maxIdleTime = th[1] /\ maxOpenTime = th[2]

\* -------------------------------------------------------------- actions
\* A resource whose take(), put() or sweep raised is referenced by nobody:
\* the object is garbage, its fields are no state of the program any more.
Drop(r, o) == IF o.ok THEN o.r ELSE NewResource

\* The main thread populates the pool: pool.put(ConnectionManager(...)).
Populate(r) ==
  /\ r \in fresh
  /\ CanPut(store)
  /\ \E o \in PutOutcomes(res[r], now) :
       /\ o.ok
       /\ res' = [res EXCEPT ![r] = o.r]
       /\ store' = LifoPut(store, r)
  /\ fresh' = fresh \ {r}
  /\ UNCHANGED <<lost, pc, held, takeT, excReturned, rpc, rs, now, config, startVars, variantVars>>

\* Time passes.
Tick ==
  /\ now < MaxTime
  /\ now' = now + 1
  /\ UNCHANGED <<store, res, fresh, lost, pc, held, takeT, excReturned, rpc, rs, config, startVars, variantVars>>

\* Pool.take, entry: t = datetime.now(), then the caller is in queue.get().
TakeStart(c) ==
  /\ fresh = {}
  /\ pc[c] = "idle"
  /\ pc' = [pc EXCEPT ![c] = "waiting"]
  /\ takeT' = [takeT EXCEPT ![c] = now]
  /\ UNCHANGED <<store, res, fresh, lost, held, excReturned, rs, rpc, now, config, startVars, variantVars>>

\* Pool.take, from the return of queue.get() to the end of take(): the
\* resource is returned, or an exception leaves take() and the resource is
\* neither returned nor put back.
TakeGet(c) ==
  /\ pc[c] = "waiting"
  /\ \E r \in LifoGet(store) :
       /\ res[r].isOpen => res[r].usageCount < MaxCount
       /\ store' = LifoRest(store)
       /\ excReturned' = excReturned \ {r}
       /\ \E o \in TakeOutcomes(res[r], takeT[c], now) :
            /\ res' = [res EXCEPT ![r] = Drop(r, o)]
            /\ pc' = [pc EXCEPT ![c] = IF o.ok THEN "using" ELSE "idle"]
            /\ held' = [held EXCEPT ![c] = IF o.ok THEN r ELSE None]
            /\ lost' = [lost EXCEPT ![r] = Cause(o)]
  /\ takeT' = [takeT EXCEPT ![c] = None]
  /\ UNCHANGED <<fresh, rs, rpc, now, config, startVars, variantVars>>

\* The body of `with pool.take() as conn:` uses the connection and leaves
\* it in a transaction (ACTIVE, INTRANS, INERROR), with the server connection
\* lost (UNKNOWN), or closed outside the manager (connm.resource.close()).
Use(c, h) ==
  /\ pc[c] = "using"
  /\ res[held[c]].handle = "idle"
  /\ h # "idle"
  /\ res' = [res EXCEPT ![held[c]].handle = h]
  /\ UNCHANGED <<store, fresh, lost, pc, held, takeT, excReturned, rs, rpc, now, config, startVars, variantVars>>

\* The scope is left, normally (exc = FALSE; the same as a plain pool.put(r))
\* or with an error propagating (exc = TRUE): ResourceManager.__exit__ and
\* the Pool.put it calls. An exception of close() or of put() leaves
\* __exit__ before queue.put(r).
Exit(c, exc) ==
  /\ pc[c] = "using"
  /\ CanPut(store)
  /\ LET r == held[c] IN
     \E o \in ExitOutcomes(res[r], exc, now) :
       /\ res' = [res EXCEPT ![r] = Drop(r, o)]
       /\ store' = IF o.ok THEN LifoPut(store, r) ELSE store
       /\ excReturned' = IF o.ok /\ exc THEN excReturned \cup {r} ELSE excReturned
       /\ lost' = [lost EXCEPT ![r] = Cause(o)]
  /\ pc' = [pc EXCEPT ![c] = "idle"]
  /\ held' = [held EXCEPT ![c] = None]
  /\ UNCHANGED <<fresh, takeT, rs, rpc, now, config, startVars, variantVars>>

\* Pool.startRecycler(1), called by the main thread once the pool is
\* populated, while no other thread calls it.
StartRecycler ==
  /\ fresh = {}
  /\ started = 0
  /\ \A c \in Callers : startPc[c] = None
  /\ rpc' = "sleeping"
  /\ started' = 1
  /\ recyclerInterval' = 1
  /\ UNCHANGED <<store, res, fresh, lost, pc, held, takeT, excReturned, rs, now, config,
                 startPc, variantVars>>

\* Pool.recycle: one iteration of the while loop in which get(block=False)
\* returns a resource; the first one follows the end of the sleep of
\* _recyclerLoop, and the loop ends with the one that makes len(rs) the
\* capacity. An exception of close() leaves recycle() and ends the thread,
\* and nothing references r and the resources of rs any more.
RecycleGet ==
  /\ rpc \in {"sleeping", "draining"}
  /\ Len(rs) # Capacity
  /\ \E r \in LifoGet(store) :
       /\ store' = LifoRest(store)
       /\ \E o \in RecycleOutcomes(res[r], now) :
            IF o.ok
            THEN /\ res' = [res EXCEPT ![r] = o.r]
                 /\ rs' = Append(rs, r)
                 /\ rpc' = IF Len(rs) + 1 = Capacity THEN "pushing" ELSE "draining"
                 /\ lost' = lost
            ELSE /\ res' = [x \in R |-> IF x = r \/ x \in Range(rs) THEN NewResource ELSE res[x]]
                 /\ rs' = <<>>
                 /\ rpc' = "dead"
                 /\ lost' = [x \in R |-> IF x = r THEN Cause(o)
                                         ELSE IF x \in Range(rs) THEN "raise"
                                         ELSE lost[x]]
  /\ UNCHANGED <<fresh, pc, held, takeT, excReturned, now, config, startVars, variantVars>>

\* Pool.recycle: get(block=False) raises queue.Empty and the while loop ends.
\* (With rs still empty recycle() returns having changed nothing.)
RecycleEmpty ==
  /\ rpc = "draining"
  /\ LifoGet(store) = {}
  /\ rpc' = "pushing"
  /\ UNCHANGED <<store, res, fresh, lost, pc, held, takeT, excReturned, rs, now, config, startVars, variantVars>>

\* Pool.recycle: one queue.put(r) of `for r in reversed(rs)`; after the last
\* one recycle() returns and the loop sleeps again.
RecyclePush ==
  /\ rpc = "pushing"
  /\ CanPut(store)
  /\ store' = LifoPut(store, rs[Len(rs)])
  /\ rs' = SubSeq(rs, 1, Len(rs) - 1)
  /\ rpc' = IF Len(rs) = 1 THEN "sleeping" ELSE "pushing"
  /\ UNCHANGED <<res, fresh, lost, pc, held, takeT, excReturned, now, config, startVars, variantVars>>

\* Intervals that startRecycler is called with.
Intervals == {1, 2}

\* Pool.startRecycler(i) called by thread c, first half: the test
\* `self._recyclerThread is None` finds None. (When it finds a thread the
\* call returns having done nothing.)
StartCheck(c, i) ==
  /\ fresh = {}
  /\ pc[c] = "idle"
  /\ startPc[c] = None
  /\ started = 0
  /\ startPc' = [startPc EXCEPT ![c] = i]
  /\ UNCHANGED <<store, res, fresh, lost, pc, held, takeT, excReturned, rpc, rs, now,
                 config, started, recyclerInterval, variantVars>>

\* Pool.startRecycler(i) called by thread c, second half: _recyclerInterval
\* is assigned, the thread is created, assigned to _recyclerThread and
\* started. No lock is held between the test and these assignments. (rpc and
\* rs follow the first thread started; a second thread runs the same loop.)
StartThread(c) ==
  /\ startPc[c] # None
  /\ recyclerInterval' = startPc[c]
  /\ started' = started + 1
  /\ rpc' = IF rpc = "none" THEN "sleeping" ELSE rpc
  /\ startPc' = [startPc EXCEPT ![c] = None]
  /\ UNCHANGED <<store, res, fresh, lost, pc, held, takeT, excReturned, rs, now, config, variantVars>>

\* The recycler thread's steps.
Recycler ==
  \/ StartRecycler
  \/ RecycleGet
  \/ RecycleEmpty
  \/ RecyclePush

Next ==
  \/ \E r \in R : Populate(r)
  \/ \E c \in Callers : TakeStart(c)
  \/ \E c \in Callers : TakeGet(c)
  \/ \E c \in Callers, h \in HandleStates : Use(c, h)
  \/ \E c \in Callers, exc \in BOOLEAN : Exit(c, exc)
  \/ Recycler

Spec == Init /\ [][Next]_vars

NextTime ==
  \/ \E r \in R : Populate(r)
  \/ Tick
  \/ TakeStart(1)
  \/ TakeGet(1)
  \/ \E h \in HandleStates : Use(1, h)
  \/ \E exc \in BOOLEAN : Exit(1, exc)
  \/ Recycler

SpecTime == InitTime /\ [][NextTime]_vars

\* The steps of a sweep.
SweepStep == RecycleGet \/ RecycleEmpty \/ RecyclePush

\* SpecTime with the threads scheduled fairly: the recycler is a thread of
\* its own whose loop sleeps and sweeps for ever, the clock advances, and a
\* thread inside queue.get() returns from it when the queue has an item. (A
\* thread need not call take(), and the body of a scope need not end.)
SpecTimeFair ==
  /\ SpecTime
  /\ WF_vars(SweepStep)
  /\ WF_vars(Tick)
  /\ WF_vars(TakeGet(1))

\* The pool of Spec whose threads call startRecycler themselves, at any time
\* after the pool is populated, and take and return resources.
NextStart ==
  \/ \E r \in R : Populate(r)
  \/ \E c \in Callers, i \in Intervals : StartCheck(c, i)
  \/ \E c \in Callers : StartThread(c)
  \/ \E c \in Callers : TakeStart(c)
  \/ \E c \in Callers : TakeGet(c)
  \/ \E c \in Callers : Exit(c, FALSE)
  \/ SweepStep

SpecStart == Init /\ [][NextStart]_vars

\* The pool with closeOnException = False and any combination of the
\* thresholds of PolicyTimes and PolicyCounts, used by one caller thread that
\* leaves its connections idle, and the recycler, while the clock runs.
InitPolicy ==
  /\ Constructed
  /\ closeOnException = FALSE
  /\ maxIdleTime \in PolicyTimes
  /\ maxOpenTime \in PolicyTimes
  /\ maxUsageCount \in PolicyCounts

NextPolicy ==
  \/ \E r \in R : Populate(r)
  \/ Tick
  \/ TakeStart(1)
  \/ TakeGet(1)
  \/ Exit(1, FALSE)
  \/ Recycler

SpecPolicy == InitPolicy /\ [][NextPolicy]_vars

\* =============================================================== claims
Populated == fresh = {}
Top(q) == q[Len(q)]
Occ(q, r) == Cardinality({i \in 1..Len(q) : q[i] = r})
\* The resources checked out: returned by a take() and not yet given to put().
CheckedOut == {held[c] : c \in {x \in Callers : pc[x] = "using"}}
\* A step in which caller c's take() returns / raises / its scope is left.
TakeReturns(c) == pc[c] = "waiting" /\ pc'[c] = "using"
TakeRaises(c) == pc[c] = "waiting" /\ pc'[c] = "idle"
ScopeExits(c) == pc[c] = "using" /\ pc'[c] = "idle"
\* A step in which caller c's scope is left by an error and the resource
\* is pushed back.
ExcReturns(c) == ScopeExits(c) /\ held[c] \in excReturned'

\* C1. Capacity conservation: once the pool is populated, with no recycler
\* started and no open() having failed, the number of resources in the store
\* plus the number checked out is the capacity.
C1_CapacityConservation ==
  (Populated /\ rpc = "none" /\ \A r \in R : lost[r] # "open")
    => Len(store) + Cardinality(CheckedOut) = Capacity

\* C2. Mutual exclusion: every resource is in at most one place: once in
\* the store, or held by one caller, or once in the recycler's list rs.
C2_MutualExclusion ==
  \A r \in R :
    Occ(store, r) + Occ(rs, r)
      + Cardinality({c \in Callers : pc[c] = "using" /\ held[c] = r}) <= 1

\* A caller holds one resource while the recycler holds the other.
C2_Witness ==
  \E c \in Callers : pc[c] = "using" /\ Len(rs) = 1 /\ held[c] # rs[1]

\* C3. Failed open in take(): when take() removes a closed resource and
\* raises, the resource is back on the store, still closed, the caller got
\* no resource, and store size plus checked-out count is what it was.
C3_FailedOpenPushedBack ==
  [][\A c \in Callers :
       (TakeRaises(c) /\ Len(store) > 0 /\ ~res[Top(store)].isOpen)
         => /\ store' = store
            /\ ~res'[Top(store)].isOpen
            /\ held'[c] = None
            /\ Len(store') + Cardinality(CheckedOut')
                 = Len(store) + Cardinality(CheckedOut)]_vars

\* C4. Guaranteed return of a scoped acquisition: whenever a scope is left,
\* normally or by an error, with either closeOnException, the resource is
\* (once) in the store afterwards.
C4_ScopedReturn ==
  [][\A c \in Callers : ScopeExits(c) => Occ(store', held[c]) = 1]_vars

\* C5. closeOnException = true: a resource pushed back by a scope that an
\* error left is closed when pushed, and stays closed (in the store or in a
\* sweep's hands) until it is taken again.
C5_ClosedAfterException ==
  closeOnException =>
    \A r \in excReturned :
      ~res[r].isOpen /\ Occ(store, r) + Occ(rs, r) = 1

\* Such a resource, drained by a sweep and still closed.
C5_Witness ==
  closeOnException /\ \E r \in excReturned : Occ(rs, r) = 1

\* What repair() changes of a resource when it does not raise.
RepairEffect(r) == (CHOOSE o \in RepairOutcomes(r) : o.ok).r

C7_Lifo ==
  [][/\ Len(store') > Len(store) => SubSeq(store', 1, Len(store)) = store
     /\ \A c \in Callers :
          TakeReturns(c) => /\ Len(store) > 0
                            /\ held'[c] = Top(store)
                            /\ store' = SubSeq(store, 1, Len(store) - 1)]_vars

\* A caller holds the resource put second while the one put first is in the store.
C7_Witness ==
  \E c \in Callers : pc[c] = "using" /\ Len(store) = 1 /\ held[c] # store[1]
                       /\ rpc = "none" /\ \A r \in R : lost[r] = "no"

\* C8. Blocking take: take() returns only from a non-empty store, and what
\* it returns is a resource that was in the store and no longer is.
C8_BlockingTake ==
  [][\A c \in Callers :
       TakeReturns(c) => /\ Len(store) > 0
                         /\ Occ(store, held'[c]) = 1
                         /\ Occ(store', held'[c]) = 0]_vars

\* A take() waits on the empty store while the other caller holds a resource.
C8_Witness ==
  /\ Populated
  /\ store = <<>>
  /\ \E c, d \in Callers : pc[c] = "waiting" /\ pc[d] = "using"

\* C9. Every resource take() hands out is open with usageCount >= 1 (the
\* caller's use changes neither).
C9_TakenIsOpen ==
  \A c \in Callers :
    pc[c] = "using" =>
      /\ held[c] \in R
      /\ res[held[c]].isOpen
      /\ res[held[c]].usageCount >= 1

\* A resource that take() (re)opened after its own entry: it waited, the
\* clock moved, and the resource was closed when removed or closed by the
\* recycling policy inside this take().
C9_Witness ==
  \E c \in Callers :
    /\ pc[c] = "using"
    /\ res[held[c]].usageCount = 1
    /\ res[held[c]].lastOpened = MaxTime
    /\ res[held[c]].lastUsed < MaxTime

\* C10. put() never blocks: the store never holds more than capacity, and
\* whenever a thread may push (a caller holds a resource, a sweep is pushing
\* back, the pool is being populated) the store is not full.
C10_PutNeverBlocks ==
  /\ Len(store) <= Capacity
  /\ ((\E c \in Callers : pc[c] = "using") \/ rpc = "pushing" \/ ~Populated)
       => CanPut(store)

\* A caller holds a resource while the sweep pushes the other one back.
C10_Witness ==
  rpc = "pushing" /\ \E c \in Callers : pc[c] = "using"

\* C11. put() never fails: a put() of a resource obtained from take() (the
\* exit of a scope of a pool with closeOnException = false is exactly one
\* put(), whatever the body did) does not raise and pushes the resource onto
\* the store, also when close() or the post-use repair hook fails.
C11_PutNeverFails ==
  [][\A c \in Callers :
       (ScopeExits(c) /\ ~closeOnException)
         => /\ lost'[held[c]] = "no"
            /\ store' = Append(store, held[c])]_vars

\* C12. Lazy open: a resource changes from closed to open only in a take()
\* that removes it from the store and returns it; put(), the recycling
\* policy and the sweep never open a resource, so a resource that is closed
\* in the store is closed for as long as it stays there.
C12_LazyOpen ==
  [][\A r \in R :
       /\ (~res[r].isOpen /\ res'[r].isOpen)
            => \E c \in Callers :
                 TakeReturns(c) /\ Top(store) = r /\ held'[c] = r
       /\ (Occ(store, r) = 1 /\ ~res[r].isOpen /\ Occ(store', r) = 1)
            => ~res'[r].isOpen]_vars

\* A resource that was opened once and closed since is in the hands of a
\* sweep, still closed.
C12_Witness ==
  /\ rpc = "pushing"
  /\ \E r \in Range(rs) : ~res[r].isOpen /\ res[r].lastOpened # None

\* C13. Usage-count recycling (maxUsageCount configured): the put() that
\* follows the maxUsageCount-th take since the last open stores the resource
\* closed, so no open resource in the store has usageCount >= maxUsageCount; a
\* put() before that leaves the resource open with its usageCount (unless the
\* exit force-closes it or the repair hook closes it); and the take() of a
\* closed resource opens it afresh and returns it with usageCount = 1.
C13_UsageCountRecycling ==
  [][/\ \A r \in R :
          (maxUsageCount # None /\ Occ(store', r) = 1 /\ res'[r].isOpen)
            => res'[r].usageCount < maxUsageCount
     /\ \A c \in Callers :
          /\ (/\ ScopeExits(c)
              /\ Occ(store', held[c]) = 1
              /\ maxUsageCount # None
              /\ ~closeOnException
              /\ res[held[c]].handle \in {"idle", "intrans"})
               => /\ res'[held[c]].usageCount = res[held[c]].usageCount
                  /\ res'[held[c]].isOpen
                       <=> res[held[c]].usageCount < maxUsageCount
          /\ (TakeReturns(c) /\ ~res[Top(store)].isOpen)
               => /\ res'[held'[c]].usageCount = 1
                  /\ res'[held'[c]].lastOpened = now]_vars

\* The second put() of a pool with maxUsageCount = 2 has stored the resource
\* closed, its usageCount still 2.
C13_Witness ==
  /\ maxUsageCount = 2
  /\ ~closeOnException
  /\ \E r \in Range(store) : ~res[r].isOpen /\ res[r].usageCount = maxUsageCount

\* maxIdleTime is configured and the open resource r was last used more than
\* maxIdleTime ago.
IdleExpired(r) ==
  maxIdleTime # None /\ res[r].isOpen /\ now - res[r].lastUsed > maxIdleTime
\* A step in which the sweep removes the top of the store.
SweepGets == Len(store') < Len(store) /\ pc' = pc

\* The part of C14 that take() and the sweep share: the evaluation of the
\* policy on an idle-expired resource closes it (take() then reopens it
\* before returning it), and a resource that is closed in the store stays
\* closed while it is there.
IdleClosedByTakeAndSweep ==
  /\ (SweepGets /\ IdleExpired(Top(store))) => ~res'[Top(store)].isOpen
  /\ \A c \in Callers :
       (TakeReturns(c) /\ IdleExpired(Top(store)))
         => /\ res'[held'[c]].lastOpened = now
            /\ res'[held'[c]].usageCount = 1
  /\ \A r \in R :
       (Occ(store, r) + Occ(rs, r) = 1 /\ ~res[r].isOpen
          /\ Occ(store', r) + Occ(rs', r) = 1) => ~res'[r].isOpen

Configured(x) == x # None /\ x # 0
\* The decision the recycling policy is to take on the resource state a at
\* time t: a is open and a configured threshold is exceeded.
PolicyApplies(a, t) ==
  /\ a.isOpen
  /\ \/ Configured(maxIdleTime) /\ t - a.lastUsed > maxIdleTime
     \/ Configured(maxOpenTime) /\ t - a.lastOpened > maxOpenTime
     \/ Configured(maxUsageCount) /\ a.usageCount >= maxUsageCount

\* C15. Recycling policy decision: every evaluation of _recycle closes the
\* resource if and only if it is open and a configured threshold is exceeded,
\* changes no field but isOpen and the handle, and leaves a closed resource
\* as it is: in a sweep; in put(), after lastUsed is set (the caller leaves
\* the connection idle and the exit forces no close); and in take(), which
\* reopens exactly the resources that were closed or that the policy closed.
C15_PolicyDecision ==
  [][/\ (SweepGets /\ rpc' # "dead")
          => LET a == res[Top(store)]
                 b == res'[Top(store)]
             IN  /\ b.isOpen <=> (a.isOpen /\ ~PolicyApplies(a, now))
                 /\ b.handle = IF PolicyApplies(a, now) THEN "none" ELSE a.handle
                 /\ b.lastOpened = a.lastOpened
                 /\ b.lastUsed = a.lastUsed
                 /\ b.usageCount = a.usageCount
     /\ \A c \in Callers :
          /\ (ScopeExits(c) /\ Occ(store', held[c]) = 1
                /\ ~closeOnException /\ res[held[c]].handle = "idle")
               => LET a == [res[held[c]] EXCEPT !.lastUsed = now]
                      b == res'[held[c]]
                  IN  /\ b.isOpen <=> ~PolicyApplies(a, now)
                      /\ b.lastOpened = a.lastOpened
                      /\ b.lastUsed = a.lastUsed
                      /\ b.usageCount = a.usageCount
          /\ TakeReturns(c)
               => LET a == res[Top(store)]
                      b == res'[Top(store)]
                  IN  IF ~a.isOpen \/ PolicyApplies(a, now)
                      THEN b.usageCount = 1 /\ b.lastOpened = now
                      ELSE /\ b.usageCount = a.usageCount + 1
                           /\ b.lastOpened = a.lastOpened]_vars

\* C16. Disabled thresholds: with maxIdleTime, maxOpenTime and maxUsageCount
\* each null or zero, no take(), put() or sweep closes a resource: an open
\* resource that stays in the pool stays open, and take() returns an open
\* resource of the store without reopening it.
C16_DisabledThresholds ==
  [][(~Configured(maxIdleTime) /\ ~Configured(maxOpenTime)
        /\ ~Configured(maxUsageCount) /\ ~closeOnException)
       => /\ \A r \in R :
               (res[r].isOpen /\ res[r].handle = "idle" /\ lost'[r] = "no")
                 => res'[r].isOpen
          /\ \A c \in Callers :
               (TakeReturns(c) /\ res[Top(store)].isOpen)
                 => res'[Top(store)].usageCount
                      = res[Top(store)].usageCount + 1]_vars

\* C17. The sweep returns everything it drained: every step of a sweep keeps
\* each resource it handles either in the store or in its list rs, and no
\* sweep ends (the recycler thread dies) while holding resources, so what a
\* sweep removed is pushed back by it, also when closing a resource fails.
C17_SweepReturnsAll ==
  [][(rs' # rs \/ rpc' # rpc)
       => /\ Range(store') \cup Range(rs') = Range(store) \cup Range(rs)
          /\ rpc' # "dead"]_vars

\* C18. The sweep is bounded: it holds at most capacity resources, its
\* push-back never finds the store full, between sweeps the recycler holds no
\* resource, and a sweep in progress ends, having pushed back all it holds
\* (so that a take() left waiting by the sweep can proceed).
C18_SweepBounded ==
  /\ [](/\ Len(rs) <= Capacity
        /\ rpc \in {"none", "sleeping"} => rs = <<>>
        /\ rpc = "pushing" => CanPut(store))
  /\ (rpc \in {"draining", "pushing"}) ~> (rpc = "sleeping" /\ rs = <<>>)

\* C19. Idle resources are eventually closed without traffic: with the
\* recycler started and a time threshold configured, a resource that is open
\* in the store (here: opened and last used at time 0) does not stay there
\* open for ever: eventually it is closed, or it has been taken.
C19_IdleEventuallyClosed ==
  \A r \in R :
    (/\ rpc # "none"
     /\ Occ(store, r) = 1
     /\ res[r].isOpen /\ res[r].lastOpened = 0 /\ res[r].lastUsed = 0)
      ~> (~res[r].isOpen \/ \E c \in Callers : pc[c] = "using" /\ held[c] = r)

\* C20. Take timeout: a take() does not wait for ever while the store stays
\* empty: either a resource is pushed, or the take() ends (with the timeout
\* error, the time that a configured timeout allows having passed).
C20_TakeTimeout ==
  \A c \in Callers :
    (pc[c] = "waiting" /\ store = <<>>)
      ~> (pc[c] # "waiting" \/ store # <<>>)

\* C21. Healthy handle or fresh open: a put() that pushes a resource whose
\* handle was closed outside the pool or has transaction status UNKNOWN stores
\* it closed, without a handle; one whose handle was left in a transaction is
\* stored open with the transaction rolled back (idle), unless the forced
\* close or the recycling policy closed it; and a take() that returns gives a
\* resource that is open with an idle handle.
C21_HealthyOrFresh ==
  [][\A c \in Callers :
       /\ (ScopeExits(c) /\ Occ(store', held[c]) = 1)
            => LET r == held[c]
                   h == res[r].handle
               IN  /\ h \in {"closed", "unknown"}
                        => ~res'[r].isOpen /\ res'[r].handle = "none"
                   /\ h = "intrans"
                        => \/ res'[r].isOpen /\ res'[r].handle = "idle"
                           \/ /\ ~res'[r].isOpen /\ res'[r].handle = "none"
                              /\ \/ closeOnException /\ r \in excReturned'
                                 \/ IsMaxUsage(res[r])
       /\ TakeReturns(c)
            => res'[held'[c]].isOpen /\ res'[held'[c]].handle = "idle"]_vars

\* A resource that only the repair hook can have closed is stored, closed, and
\* a caller has taken the other resource after it.
C21_Witness ==
  /\ ~closeOnException
  /\ maxUsageCount = None
  /\ \E r \in Range(store) : ~res[r].isOpen /\ res[r].lastOpened # None
  /\ \E c \in Callers : pc[c] = "using" /\ res[held[c]].handle = "idle"

\* C22. repair() never raises: a put() in which only the repair hook can fail
\* (no forced close, the recycling policy does not close the resource) does
\* not raise, and pushes the resource either repaired or closed.
C22_RepairNeverRaises ==
  [][\A c \in Callers :
       (ScopeExits(c) /\ ~closeOnException /\ ~IsMaxUsage(res[held[c]]))
         => /\ lost'[held[c]] = "no"
            /\ Occ(store', held[c]) = 1
            /\ \/ res'[held[c]].isOpen /\ res'[held[c]].handle = "idle"
               \/ ~res'[held[c]].isOpen]_vars

\* The fields of a resource that the pool reads and writes.
PoolFields(x) == <<x.isOpen, x.lastOpened, x.lastUsed, x.usageCount, x.bound>>

C24_SingleRecycler ==
  [][/\ started' <= 1
     /\ recyclerInterval # None => recyclerInterval' = recyclerInterval]_vars

\* C25. The pool never invokes close() on an already closed resource: no
\* close() issued by the recycling policy, the repair hook or the forced close
\* of a scope was issued on a closed resource, and the resource a scope
\* holds, on which the forced close will be called, is open with its handle.
C25_NoCloseOfClosed ==
  /\ \A r \in R : lost[r] # "closed twice"
  /\ \A c \in Callers :
       pc[c] = "using" => res[held[c]].isOpen /\ res[held[c]].handle # "none"

\* The recycling policy is about to be evaluated on a closed resource that is
\* past the usage threshold: a caller is in take() and the resource on top of
\* the store was closed at its maxUsageCount-th use, by the policy or by the
\* forced close.
C25_Witness ==
  /\ maxUsageCount # None
  /\ closeOnException
  /\ Len(store) > 0
  /\ ~res[Top(store)].isOpen
  /\ res[Top(store)].usageCount >= maxUsageCount
  /\ \E c \in Callers : pc[c] = "waiting"

\* C26. take() stamps the checkout time: when take() returns a resource, its
\* lastUsed is not earlier than the time at which the resource was removed
\* from the store and not earlier than its lastOpened.
C26_TakeStampsCheckout ==
  [][\A c \in Callers :
       TakeReturns(c)
         => /\ res'[held'[c]].lastUsed >= now
            /\ res'[held'[c]].lastUsed >= res'[held'[c]].lastOpened]_vars

\* The resources in the store, held by the sweep, or checked out.
Managed == Range(store) \cup Range(rs) \cup CheckedOut

\* C27 as stated. Open/handle consistency: every resource in the store or
\* checked out that is closed has no handle and has usageCount and lastOpened
\* reset (zero or undefined), and every one that is open has a handle.
C27_OpenHandleConsistency ==
  \A r \in Managed :
    /\ ~res[r].isOpen
         => /\ res[r].handle = "none"
            /\ res[r].usageCount \in {None, 0}
            /\ res[r].lastOpened = None
    /\ res[r].isOpen => res[r].handle # "none"

\* C27, amended. Every resource in the store, held by the sweep or checked
\* out has a handle exactly when it is open; a close() leaves usageCount and
\* lastOpened as they were (the next open() sets them anew).
C27_OpenHandleKeepsCounters ==
  [][\A r \in Managed' :
       /\ res'[r].isOpen <=> res'[r].handle # "none"
       /\ (res[r].isOpen /\ ~res'[r].isOpen)
            => /\ res'[r].usageCount = res[r].usageCount
               /\ res'[r].lastOpened = res[r].lastOpened]_vars

\* A resource that was opened, used and closed is in the store, with the
\* usageCount and lastOpened of its last open period.
C27_Witness ==
  \E r \in Range(store) :
    /\ ~res[r].isOpen
    /\ res[r].handle = "none"
    /\ res[r].usageCount >= 1
    /\ res[r].lastOpened # None

\* C28. Usage bound (maxUsageCount configured): no open resource has a
\* usageCount above maxUsageCount, and a take() that returns a resource whose
\* usageCount had reached maxUsageCount has reopened it (its count is 1).
C28_UsageBound ==
  [][maxUsageCount # None
       => /\ \A r \in R :
               res'[r].isOpen => res'[r].usageCount <= maxUsageCount
          /\ \A c \in Callers :
               (TakeReturns(c) /\ res[held'[c]].usageCount >= maxUsageCount)
                 => res'[held'[c]].usageCount = 1]_vars

\* A caller uses a resource for the maxUsageCount-th time while the other
\* resource, closed at its maxUsageCount-th use, waits in the store for a
\* caller that is in take().
C28_Witness ==
  /\ maxUsageCount # None
  /\ \E c, d \in Callers :
       /\ pc[c] = "using"
       /\ res[held[c]].usageCount = maxUsageCount
       /\ pc[d] = "waiting"
  /\ \E r \in Range(store) : ~res[r].isOpen /\ res[r].usageCount = maxUsageCount

\* C29. Conservation with the recycler: once the pool is populated, each
\* resource is in exactly one place: once in the store, held by one caller, or
\* in the list of the sweep; so the size of the store plus the number checked
\* out plus the number held by the sweep is the capacity.
C29_ConservationWithRecycler ==
  Populated
    => /\ \A r \in R :
            Occ(store, r) + Occ(rs, r)
              + Cardinality({c \in Callers : pc[c] = "using" /\ held[c] = r}) = 1
       /\ Len(store) + Cardinality(CheckedOut) + Len(rs) = Capacity

\* C30. No deadlock: in a populated pool whose recycler was started, whenever
\* a take() is blocked on the empty store some resource is checked out or
\* held by the running sweep, so that a push will let a blocked take() proceed.
C30_NoDeadlock ==
  (Populated /\ started > 0 /\ store = <<>> /\ \E c \in Callers : pc[c] = "waiting")
    => \/ CheckedOut # {}
       \/ rs # <<>> /\ rpc \in {"draining", "pushing"}

\* reversed(rs).
Reversed(q) == [i \in 1..Len(q) |-> q[Len(q) + 1 - i]]

\* C31. Sweep frame: every step of a sweep keeps the store followed by the
\* reverse of its list rs the same sequence (so a sweep that no take() or
\* put() interleaves with ends with the store it began with, in the same
\* order), changes no resource's lastUsed, lastOpened or usageCount, opens no
\* resource and repairs no handle: all it does to a resource is close it.
C31_SweepFrame ==
  [][(rpc # "none" /\ (rs' # rs \/ rpc' # rpc))
       => /\ store' \o Reversed(rs') = store \o Reversed(rs)
          /\ \A r \in R :
               /\ res'[r].lastUsed = res[r].lastUsed
               /\ res'[r].lastOpened = res[r].lastOpened
               /\ res'[r].usageCount = res[r].usageCount
               /\ res'[r].isOpen => res[r].isOpen
               /\ \/ res'[r].handle = res[r].handle
                  \/ res[r].isOpen /\ ~res'[r].isOpen /\ res'[r].handle = "none"]_vars

\* ------------------------------------- the Pool of src/queuepool/postgres.py
\* Both pools are constructed with the same arguments and are given the same
\* resources (objects with the open(), close() and __exit__ of
\* ResourceManager, whose takeRepair and putRepair do nothing), the same
\* operations and the same clock.

\* Pool._recycle of the variant.
VRecycleOutcomes(r, t) ==
  IF r.isOpen /\ (IsMaxIdle(r, t) \/ IsMaxOpen(r, t) \/ IsMaxUsage(r))
  THEN CloseOutcomes(r)
  ELSE {Ok(r)}

\* Faulty variant of VTakeOutcomes: a take() that stamps the time of the
\* checkout instead of the time read on entry.
VTakeStampsNow(r, t0, t) ==
  LET recycled == VRecycleOutcomes([r EXCEPT !.bound = TRUE], t)
      opened == Then(recycled, LAMBDA x : IF x.isOpen THEN {Ok(x)} ELSE OpenOutcomes(x, t))
  IN  Then(opened, LAMBDA x :
             {Ok([x EXCEPT !.usageCount = x.usageCount + 1, !.lastUsed = t])})

\* Pool.take of the variant after self._pool.get() returned r: no hook is called.
VTakeOutcomes(r, t0, t) ==
  LET recycled == VRecycleOutcomes([r EXCEPT !.bound = TRUE], t)
      opened == Then(recycled, LAMBDA x : IF x.isOpen THEN {Ok(x)} ELSE OpenOutcomes(x, t))
  IN  Then(opened, LAMBDA x :
             {Ok([x EXCEPT !.usageCount = x.usageCount + 1, !.lastUsed = t0])})

\* Pool.put of the variant before self._pool.put(r): no hook is called.
VPutOutcomes(r, t) ==
  VRecycleOutcomes([r EXCEPT !.bound = TRUE, !.lastUsed = t], t)

\* ResourceManager.__exit__ of a resource bound to the variant pool.
VExitOutcomes(r, exc, t) == ExitWith(r, exc, t, VPutOutcomes)

\* Pool.take of src/postgres.py for a resource with the hooks of the base
\* class (takeRepair does nothing for any resource).
BaseTakeOutcomes(r, t0, t) == TakeOutcomes(r, t0, t)

\* The same collaborator behaviour in both pools: both calls succeed, or the
\* same call raises.
SameCalls(o, v) == o.ok = v.ok /\ o.err = v.err

\* The resource is put into both pools.
PopulateBoth(r) ==
  /\ r \in fresh
  /\ CanPut(store)
  /\ CanPut(vstore)
  /\ \E o \in BasePutOutcomes(res[r], now), v \in VPutOutcomes(vres[r], now) :
       /\ o.ok /\ v.ok
       /\ res' = [res EXCEPT ![r] = o.r]
       /\ vres' = [vres EXCEPT ![r] = v.r]
  /\ store' = LifoPut(store, r)
  /\ vstore' = LifoPut(vstore, r)
  /\ fresh' = fresh \ {r}
  /\ UNCHANGED <<lost, pc, held, takeT, excReturned, rpc, rs, now, config, startVars>>

\* take() of both pools, from the return of get() on.
TakeBoth(c) ==
  /\ pc[c] = "waiting"
  /\ \E r \in LifoGet(store), w \in LifoGet(vstore) :
       /\ res[r].isOpen => res[r].usageCount < MaxCount
       /\ store' = LifoRest(store)
       /\ vstore' = LifoRest(vstore)
       /\ excReturned' = excReturned \ {r}
       /\ \E o \in BaseTakeOutcomes(res[r], takeT[c], now),
             v \in VTakeOutcomes(vres[w], takeT[c], now) :
            /\ SameCalls(o, v)
            /\ res' = [res EXCEPT ![r] = Drop(r, o)]
            /\ vres' = [vres EXCEPT ![w] = Drop(w, v)]
            /\ pc' = [pc EXCEPT ![c] = IF o.ok THEN "using" ELSE "idle"]
            /\ held' = [held EXCEPT ![c] = IF o.ok THEN r ELSE None]
            /\ lost' = [lost EXCEPT ![r] = Cause(o)]
  /\ takeT' = [takeT EXCEPT ![c] = None]
  /\ UNCHANGED <<fresh, rs, rpc, now, config, startVars>>

\* The body of the scope leaves the connection of both pools in state h.
UseBoth(c, h) ==
  /\ pc[c] = "using"
  /\ res[held[c]].handle = "idle"
  /\ h # "idle"
  /\ res' = [res EXCEPT ![held[c]].handle = h]
  /\ vres' = [vres EXCEPT ![held[c]].handle = h]
  /\ UNCHANGED <<store, vstore, fresh, lost, pc, held, takeT, excReturned, rs, rpc, now,
                 config, startVars>>

\* The scope is left (exc = FALSE: the same as a plain put(r)) in both pools.
ExitBoth(c, exc) ==
  /\ pc[c] = "using"
  /\ CanPut(store)
  /\ CanPut(vstore)
  /\ LET r == held[c] IN
     \E o \in BaseExitOutcomes(res[r], exc, now),
        v \in VExitOutcomes(vres[r], exc, now) :
       /\ SameCalls(o, v)
       /\ res' = [res EXCEPT ![r] = Drop(r, o)]
       /\ vres' = [vres EXCEPT ![r] = Drop(r, v)]
       /\ store' = IF o.ok THEN LifoPut(store, r) ELSE store
       /\ vstore' = IF v.ok THEN LifoPut(vstore, r) ELSE vstore
       /\ excReturned' = IF o.ok /\ exc THEN excReturned \cup {r} ELSE excReturned
       /\ lost' = [lost EXCEPT ![r] = Cause(o)]
  /\ pc' = [pc EXCEPT ![c] = "idle"]
  /\ held' = [held EXCEPT ![c] = None]
  /\ UNCHANGED <<fresh, takeT, rs, rpc, now, config, startVars>>

\* Both pools constructed with the same thresholds.
InitVariant ==
  /\ Constructed
  /\ closeOnException \in BOOLEAN
  /\ maxUsageCount \in MaxUsageCounts
  /\ \E th \in TimeThresholds \cup {<<None, None>>} :
       maxIdleTime = th[1] /\ maxOpenTime = th[2]

NextVariant ==
  \/ \E r \in R : PopulateBoth(r)
  \/ Tick
  \/ \E c \in Callers : TakeStart(c)
  \/ \E c \in Callers : TakeBoth(c)
  \/ \E c \in Callers, h \in HandleStates : UseBoth(c, h)
  \/ \E c \in Callers, exc \in BOOLEAN : ExitBoth(c, exc)

SpecVariant == InitVariant /\ [][NextVariant]_vars

\* C32. Variant equivalence: given the same operations, resources and clock,
\* the Pool of src/postgres.py (resources whose hooks do nothing, recycler not
\* started) and the Pool of src/queuepool/postgres.py have the same store, in
\* the same order, and the same fields of every resource; and the next take()
\* and the next scope exit or put() have the same outcomes in both pools.
C32_VariantEquivalence ==
  /\ vstore = store
  /\ \A r \in R : vres[r] = res[r]
  /\ \A c \in Callers :
       /\ (pc[c] = "waiting" /\ Len(store) > 0 /\ Len(vstore) > 0)
            => BaseTakeOutcomes(res[Top(store)], takeT[c], now)
                 = VTakeOutcomes(vres[Top(vstore)], takeT[c], now)
       /\ pc[c] = "using"
            => \A exc \in BOOLEAN :
                 BaseExitOutcomes(res[held[c]], exc, now)
                   = VExitOutcomes(vres[held[c]], exc, now)

\* Both pools have closed a resource that was used and hold another that was
\* opened earlier and used later, at the end of the clock.
C32_Witness ==
  /\ now = MaxTime
  /\ Len(vstore) = Capacity
  /\ \E r, w \in Range(vstore) :
       /\ ~vres[r].isOpen
       /\ vres[r].usageCount >= 1
       /\ vres[w].isOpen
       /\ vres[w].lastUsed > vres[w].lastOpened

====
